---- MODULE Spec2Model ----
(***************************************************************************)
(* Usage metering core of org-platform: the API-key authenticator, the     *)
(* quota reservation made under a per-tenant advisory lock, the response   *)
(* hook that settles or compensates it, and the operations that write the  *)
(* tables they read (plan update, key issue and revocation, subscription   *)
(* events); the in-memory rate limiter of the login and registration       *)
(* routes; and the Stripe webhook that stores and enqueues an event.       *)
(*                                                                         *)
(* A request interleaves with the others at its store statements.  Steps   *)
(* that only read are joined with the next step that writes when no other  *)
(* operation can tell the difference.  An instant counts ticks, a UTC day   *)
(* has TicksPerDay of them, and dayBucket truncates an instant to the      *)
(* midnight that starts its day.  The requests are served one tick after   *)
(* midnight of the day the clock is in.                                    *)
(***************************************************************************)
EXTENDS Integers, Sequences, FiniteSets, TLC

(* ------------------------------ bounds --------------------------------- *)
NumReqs == 2
MaxDay == 2
MaxPlanLimit == 2
MaxFaults == 2
MaxCalls == 3
MaxTime == 3
MaxDeliveries == 2
MaxRuns == 2

(* ------------------------- program constants --------------------------- *)
METRIC == "api_requests"
PrefixLength == 8
DefaultQuantity == 1
ApiKeyRateLimit == 1
MsPerSec == 1000
TicksPerDay == 2
DefaultWindowSec == 60
PruneThreshold == 3
AuthWindowSec == 2
LoginIpLimit == 2
LoginIdentifierLimit == 1
RegisterIpLimit == 0
TimeStepMs == 750

Reqs == 1..NumReqs
Days == {d * TicksPerDay : d \in 0..MaxDay}
SeedDay == 0
StartDay == SeedDay + TicksPerDay
Orgs == {"orgA", "orgB"}
KeyIds == {"k1", "k2"}
SubscriptionIds == {"sub1", "sub2"}
Null == -1
NoKey == [id |-> "none", orgId |-> "none"]
NoHeader == "none"
NoReq == 0
Deliveries == 1..MaxDeliveries
NoEvent == "none"
EventIds == {"evt_1", "evt_2"}
NoUrl == "none"
DataUrl == "/data"
PlanUrl == "/admin/plan"

(* The secret issued with each credential; the two secrets share their      *)
(* first PrefixLength characters and differ after them.                     *)
SecretOf(k) == IF k = "k1" THEN <<1, 1, 1, 1, 1, 1, 1, 1, 1>>
               ELSE <<1, 1, 1, 1, 1, 1, 1, 1, 2>>
Tokens == {SecretOf(k) : k \in KeyIds}
NoAuth == [scheme |-> "none", token |-> <<>>]
AuthHeaders == {NoAuth} \cup {[scheme |-> "Bearer ", token |-> t] : t \in Tokens}

VARIABLES clock, faults, organization, subscription, apiKey, usageDaily,
          usageEvent, advisoryLock, requests,
          time, buckets, rateLog,
          stripeEvent, stripeQueue, deliveries,
          usageJob

limiterVars == <<time, buckets, rateLog>>
webhookVars == <<stripeEvent, stripeQueue, deliveries>>
workerVars == <<usageJob>>
ledgerVars == <<clock, faults, organization, subscription, apiKey, usageDaily,
                usageEvent, advisoryLock, requests>>

vars == <<ledgerVars, limiterVars, webhookVars, workerVars>>

(* ------------------------------ helpers -------------------------------- *)
Min(a, b) == IF a < b THEN a ELSE b
Max(a, b) == IF a > b THEN a ELSE b

RECURSIVE SumOver(_, _)
SumOver(S, f) == IF S = {} THEN 0
                 ELSE LET x == CHOOSE y \in S : TRUE
                      IN f[x] + SumOver(S \ {x}, f)

dayBucket(t) == t - (t % TicksPerDay)

prefixFromKey(key) == SubSeq(key, 1, Min(Len(key), PrefixLength))

sha256(value) == [alg |-> "sha256", len |-> 64, of |-> value]

(* A digest of another length, as a row written with another algorithm     *)
(* holds.                                                                   *)
LegacyDigest(value) == [alg |-> "md5", len |-> 32, of |-> value]

(* crypto.timingSafeEqual throws a RangeError on buffers of unequal length. *)
timingSafeEqual(a, b) == [threw |-> a.len # b.len, equal |-> a.len = b.len /\ a = b]

keyMetric(id) == "api_key:" \o id

Metrics == {METRIC} \cup {keyMetric(k) : k \in KeyIds}

(* A UsageDaily row is addressed by its unique key (orgId, metric, date).   *)
(* A missing row reads as no quantity.                                      *)
RowKey(o, m, d) == <<o, m, d>>
HasRow(ud, o, m, d) == RowKey(o, m, d) \in DOMAIN ud
Quantity(ud, o, m, d) == IF HasRow(ud, o, m, d) THEN ud[RowKey(o, m, d)] ELSE 0

UpsertOverwrite(ud, o, m, d, q) ==
    [k \in DOMAIN ud \cup {RowKey(o, m, d)} |->
        IF k = RowKey(o, m, d) THEN q ELSE ud[k]]

Upsert(ud, o, m, d, q) ==
    [k \in DOMAIN ud \cup {RowKey(o, m, d)} |->
        IF k = RowKey(o, m, d) THEN Quantity(ud, o, m, d) + q ELSE ud[k]]

UpdateManyDecrement(ud, o, m, d, q) ==
    [k \in DOMAIN ud |-> IF k = RowKey(o, m, d) THEN ud[k] - q ELSE ud[k]]

AggregateAnyMetric(ud, o, cycleStart) ==
    SumOver({k \in DOMAIN ud : k[1] = o /\ k[3] >= cycleStart}, ud)

Aggregate(ud, o, cycleStart) ==
    SumOver({k \in DOMAIN ud : k[1] = o /\ k[2] = METRIC /\ k[3] >= cycleStart}, ud)

(* The most recently created subscription is the last of the tenant's rows. *)
getBillingCycleStart(subs, o, now) ==
    IF subs[o] # <<>> /\ subs[o][Len(subs[o])].currentPeriodStart # Null
    THEN dayBucket(subs[o][Len(subs[o])].currentPeriodStart)
    ELSE dayBucket(now)

(* setErrorHandler: the reply produced for a thrown error.                  *)
AppError(code, httpStatus, message) ==
    [app |-> TRUE, code |-> code, httpStatus |-> httpStatus, message |-> message,
     retryAfterSec |-> 0]
StoreError == [app |-> FALSE, code |-> "", httpStatus |-> 0, message |-> "prisma",
               retryAfterSec |-> 0]

ErrorReply(error) ==
    IF error.app
    THEN [status |-> error.httpStatus, code |-> error.code, message |-> error.message,
          retryAfterSec |-> error.retryAfterSec,
          retryAfterHeader |-> IF error.httpStatus = 429 /\ error.retryAfterSec # 0
                               THEN error.retryAfterSec ELSE 0]
    ELSE [status |-> 500, code |-> "INTERNAL", message |-> "Internal server error",
          retryAfterSec |-> 0, retryAfterHeader |-> 0]

NoReply == [status |-> 0, code |-> "", message |-> "", retryAfterSec |-> 0,
            retryAfterHeader |-> 0]
OkReply == [status |-> 200, code |-> "", message |-> "", retryAfterSec |-> 0,
            retryAfterHeader |-> 0]

MissingApiKey == AppError("UNAUTHORIZED", 401, "Missing API key")
InvalidApiKey == AppError("UNAUTHORIZED", 401, "Invalid API key")
MissingOrgId == AppError("BAD_REQUEST", 400, "Missing X-Org-Id header")
KeyRateLimited == AppError("RATE_LIMIT", 429, "API key rate limit exceeded")
UsageLimitExceeded == AppError("RATE_LIMIT", 429, "Usage limit exceeded")
InvalidSession == AppError("UNAUTHORIZED", 401, "Invalid session")
InsufficientRole == AppError("FORBIDDEN", 403, "Insufficient role")
OrgNotFound == AppError("NOT_FOUND", 404, "Organization not found")

(* ------------------------------ state ---------------------------------- *)
(* clock: the current instant.   faults: store errors injected so far.       *)
(* organization, subscription, apiKey, usageDaily, usageEvent: the tables.  *)
(* advisoryLock: the transaction holding pg_advisory_xact_lock per tenant.  *)
(* requests: each request's headers, decorations, reply and position.       *)
NewRequest ==
    [pc |-> "idle", url |-> NoUrl, authorization |-> NoAuth, orgHeader |-> NoHeader,
     apiKey |-> NoKey, usageReserved |-> FALSE, reply |-> NoReply,
     date |-> 0, logged |-> FALSE]

(* The ledger starts with one settled call of orgA on the day before.       *)
SeedRollup ==
    [k \in {RowKey("orgA", METRIC, SeedDay), RowKey("orgA", keyMetric("k1"), SeedDay)}
       |-> DefaultQuantity]
SeedEvents ==
    <<[orgId |-> "orgA", metric |-> METRIC, quantity |-> DefaultQuantity,
       apiKeyId |-> "k1", ts |-> SeedDay, by |-> NoReq]>>

(* The credential issued to orgA before the requests arrive.                 *)
SeedKeys ==
    [k \in {"k1"} |->
       [orgId |-> "orgA", prefix |-> prefixFromKey(SecretOf(k)),
        hash |-> sha256(SecretOf(k)), revokedAt |-> Null, lastUsedAt |-> Null]]

(* A webhook delivery before its signature is verified.                     *)
NewDelivery == [pc |-> "idle", event |-> NoEvent, status |-> 0]

(* The usage-rollups job: idle, or between the query and the last upsert of *)
(* its loop; runs counts the jobs started.                                  *)
IdleJob(n) == [pc |-> "idle", bucket |-> 0, rows |-> {}, runs |-> n]

(* The state after construction, with the credentials the table holds.    *)
InitWith(keys) ==
    /\ clock = StartDay + 1
    /\ faults = 0
    /\ \E l \in {1, MaxPlanLimit} :
         organization = [o \in Orgs |-> [planLimit |-> IF o = "orgA" THEN l ELSE 1]]
    /\ \E s \in {<<>>, <<[stripeSubscriptionId |-> "sub1", currentPeriodStart |-> SeedDay]>>} :
         subscription = [o \in Orgs |-> IF o = "orgA" THEN s ELSE <<>>]
    /\ apiKey = keys
    /\ usageDaily = SeedRollup
    /\ usageEvent = SeedEvents
    /\ advisoryLock = [o \in Orgs |-> NoReq]
    /\ requests = [r \in Reqs |-> NewRequest]
    /\ time = 0
    /\ buckets = <<>>
    /\ rateLog = <<>>
    /\ stripeEvent = {}
    /\ stripeQueue = <<>>
    /\ deliveries = [d \in Deliveries |-> NewDelivery]
    /\ usageJob = IdleJob(0)

Init == InitWith(SeedKeys)

(* A store statement may fail; the model injects at most MaxFaults errors.  *)
StoreFails ==
    /\ faults < MaxFaults
    /\ faults' = faults + 1

(* ------------------------ response completion -------------------------- *)
SettleDateFixed(req, now) == StartDay

SettleDate(req, now) == dayBucket(now)

HookRunsAlways(status, reserved) == TRUE

HookRuns(status, reserved) == status < 500 \/ reserved

CompensatesNever(status, reserved) == FALSE

Compensates(status, reserved) == reserved /\ status >= 500

Finished(req) == [req EXCEPT !.pc = "done", !.date = 0]

(* The reply is sent and the onResponse hook enters recordUsage, up to its  *)
(* first store statement.                                                   *)
Complete(req, reply, now) ==
    IF ~HookRuns(reply.status, req.usageReserved) \/ req.apiKey = NoKey
    THEN Finished([req EXCEPT !.reply = reply])
    ELSE [req EXCEPT !.reply = reply,
                     !.date = SettleDate(req, now),
                     !.pc = IF Compensates(reply.status, req.usageReserved)
                            THEN "compensate" ELSE "event"]

Respond(r, error) ==
    [requests EXCEPT ![r] = Complete(@, ErrorReply(error), clock)]

(* ------------------------- Key Authenticator --------------------------- *)
CandidatesAnyOrg(keys, prefix, orgId) ==
    {k \in DOMAIN keys : keys[k].prefix = prefix /\ keys[k].revokedAt = Null}

CandidatesWithRevoked(keys, prefix, orgId) ==
    {k \in DOMAIN keys : keys[k].prefix = prefix /\ keys[k].orgId = orgId}

Candidates(keys, prefix, orgId) ==
    {k \in DOMAIN keys : /\ keys[k].prefix = prefix
                         /\ keys[k].revokedAt = Null
                         /\ keys[k].orgId = orgId}

(* The callback of candidates.find: the lengths, then the comparison.       *)
CompareSkipsLength(candidateHash, hash) == timingSafeEqual(candidateHash, hash)

Compare(candidateHash, hash) ==
    IF candidateHash.len # hash.len THEN [threw |-> FALSE, equal |-> FALSE]
    ELSE timingSafeEqual(candidateHash, hash)

MatchesPrefixOnly(keys, candidate, hash) == TRUE

Matches(keys, candidate, hash) == Compare(keys[candidate].hash, hash).equal

Found(keys, key, orgId) ==
    {c \in Candidates(keys, prefixFromKey(key), orgId) : Matches(keys, c, sha256(key))}

Threw(keys, key, orgId) ==
    \E c \in Candidates(keys, prefixFromKey(key), orgId) :
       Compare(keys[c].hash, sha256(key)).threw

(* An AppError thrown by a preHandler ends the chain: the error handler     *)
(* replies and neither the later preHandlers nor the handler run.           *)
RejectsAndContinues(req, error, now) == [req EXCEPT !.pc = "reserve"]

Rejects(req, error, now) == Complete(req, ErrorReply(error), now)

(* A request to GET /data arrives with its headers and runs requireApiKey   *)
(* up to the credential lookup and match; requests are numbered in order of *)
(* arrival.                                                                 *)
requireApiKey(r, inputs) ==
    /\ requests[r].pc = "idle"
    /\ \A q \in Reqs : q < r => requests[q].pc # "idle"
    /\ \E headers \in inputs :
         LET auth == headers[1]
             h == headers[2]
             arrived == [requests[r] EXCEPT !.url = DataUrl, !.authorization = auth,
                                            !.orgHeader = h]
             Throw(error) == [requests EXCEPT ![r] = Rejects(arrived, error, clock)]
         IN
         IF auth = NoAuth \/ auth.scheme # "Bearer "
         THEN requests' = Throw(MissingApiKey)
         ELSE IF h = NoHeader
         THEN requests' = Throw(MissingOrgId)
         ELSE IF Threw(apiKey, auth.token, h)
         THEN requests' = Throw(StoreError)
         ELSE IF Found(apiKey, auth.token, h) = {}
         THEN requests' = Throw(InvalidApiKey)
         ELSE \E k \in Found(apiKey, auth.token, h) :
                requests' = [requests EXCEPT
                               ![r] = [arrived EXCEPT
                                         !.apiKey = [id |-> k, orgId |-> apiKey[k].orgId],
                                         !.pc = "lastUsed"]]
    /\ UNCHANGED <<limiterVars, webhookVars, workerVars>>
    /\ UNCHANGED <<clock, faults, organization, subscription, apiKey, usageDaily,
                   usageEvent, advisoryLock>>

(* prisma.apiKey.update of lastUsedAt; a store error is thrown to the       *)
(* error handler.                                                           *)
updateLastUsed(r) ==
    LET req == requests[r] IN
    /\ req.pc = "lastUsed"
    /\ \/ /\ apiKey' = [apiKey EXCEPT ![req.apiKey.id].lastUsedAt = clock]
          /\ requests' = [requests EXCEPT ![r].pc = "keyLimit"]
          /\ UNCHANGED faults
       \/ /\ StoreFails
          /\ requests' = Respond(r, StoreError)
          /\ UNCHANGED apiKey
    /\ UNCHANGED <<limiterVars, webhookVars, workerVars>>
    /\ UNCHANGED <<clock, organization, subscription, usageDaily, usageEvent,
                   advisoryLock>>

enforceApiKeyRateLimit(r) ==
    LET req == requests[r]
        used == Quantity(usageDaily, req.apiKey.orgId, keyMetric(req.apiKey.id),
                         dayBucket(clock))
    IN
    /\ req.pc = "keyLimit"
    /\ IF ApiKeyRateLimit > 0 /\ used >= ApiKeyRateLimit
       THEN requests' = Respond(r, KeyRateLimited)
       ELSE requests' = [requests EXCEPT ![r].pc = "reserve"]
    /\ UNCHANGED <<limiterVars, webhookVars, workerVars>>
    /\ UNCHANGED <<clock, faults, organization, subscription, apiKey, usageDaily,
                   usageEvent, advisoryLock>>

(* ---------------------- Usage Ledger: reserve -------------------------- *)
LockAvailableNoLock(lock, o) == TRUE

LockAvailable(lock, o) == lock[o] = NoReq

(* The transaction ends, by commit or by rollback, and its locks go.        *)
ReleaseLockNever(lock, o) == lock

ReleaseLock(lock, o) == [lock EXCEPT ![o] = NoReq]

OverLimitOffByOne(used, planLimit) == used > planLimit

OverLimit(used, planLimit) == used >= planLimit

(* The tenant a request is billed to: the identity attached by             *)
(* requireApiKey; a request without one is not billable.                    *)
BillableOrgFromHeader(req) == req.orgHeader

BillableOrg(req) == req.apiKey.orgId

(* enforceUsageLimit from pg_advisory_xact_lock to the quota check: the     *)
(* transaction waits for the tenant's lock, reads the organization, the     *)
(* cycle start and the sum; a rejection rolls back and releases the lock.   *)
reserveCheck(r) ==
    LET req == requests[r]
        orgId == BillableOrg(req)
        cycleStart == getBillingCycleStart(subscription, orgId, clock)
        used == Aggregate(usageDaily, orgId, cycleStart)
    IN
    /\ req.pc = "reserve"
    /\ IF orgId = NoKey.orgId
       THEN /\ requests' = [requests EXCEPT ![r].pc = "handler"]
            /\ UNCHANGED advisoryLock
       ELSE /\ LockAvailable(advisoryLock, orgId)
            /\ IF orgId \notin DOMAIN organization
               THEN /\ requests' = Respond(r, OrgNotFound)
                    /\ UNCHANGED advisoryLock
               ELSE IF OverLimit(used, organization[orgId].planLimit)
               THEN /\ requests' = Respond(r, UsageLimitExceeded)
                    /\ UNCHANGED advisoryLock
               ELSE /\ requests' = [requests EXCEPT ![r].pc = "txUpsert"]
                    /\ advisoryLock' = [advisoryLock EXCEPT ![orgId] = r]
    /\ UNCHANGED <<limiterVars, webhookVars, workerVars>>
    /\ UNCHANGED <<clock, faults, organization, subscription, apiKey, usageDaily,
                   usageEvent>>

(* The request once its reserve transaction has returned.                   *)
ReservedUnflagged(req) == [req EXCEPT !.pc = "handler"]

Reserved(req) == [req EXCEPT !.usageReserved = TRUE, !.pc = "handler"]

(* The upsert of today's row, the commit that releases the lock, and the    *)
(* flag set after the transaction returned; a store error rolls back.       *)
reserveUpsert(r) ==
    LET req == requests[r] IN
    /\ req.pc = "txUpsert"
    /\ advisoryLock' = ReleaseLock(advisoryLock, BillableOrg(req))
    /\ \/ /\ usageDaily' = Upsert(usageDaily, BillableOrg(req), METRIC,
                                  dayBucket(clock), 1)
          /\ requests' = [requests EXCEPT ![r] = Reserved(@)]
          /\ UNCHANGED faults
       \/ /\ StoreFails
          /\ requests' = Respond(r, StoreError)
          /\ UNCHANGED usageDaily
    /\ UNCHANGED <<limiterVars, webhookVars, workerVars>>
    /\ UNCHANGED <<clock, organization, subscription, apiKey, usageEvent>>

(* GET /data handler: replies 200, or its store read throws and the error   *)
(* handler replies 500.                                                     *)
dataHandler(r) ==
    LET req == requests[r] IN
    /\ req.pc = "handler"
    /\ req.url = DataUrl
    /\ \/ /\ requests' = [requests EXCEPT ![r] = Complete(@, OkReply, clock)]
          /\ UNCHANGED faults
       \/ /\ StoreFails
          /\ requests' = Respond(r, StoreError)
    /\ UNCHANGED <<limiterVars, webhookVars, workerVars>>
    /\ UNCHANGED <<clock, organization, subscription, apiKey, usageDaily, usageEvent,
                   advisoryLock>>

(* GET /admin/plan arrives with a session cookie; its first preHandler is   *)
(* enforceUsageLimit, before requireUser.                                   *)
adminPlanArrives(r) ==
    /\ requests[r].pc = "idle"
    /\ \A q \in Reqs : q < r => requests[q].pc # "idle"
    /\ \E h \in Orgs \cup {NoHeader} :
         requests' = [requests EXCEPT ![r] = [@ EXCEPT !.url = PlanUrl, !.orgHeader = h,
                                                       !.pc = "reserve"]]
    /\ UNCHANGED <<limiterVars, webhookVars, workerVars>>
    /\ UNCHANGED <<clock, faults, organization, subscription, apiKey, usageDaily,
                   usageEvent, advisoryLock>>

(* requireUser, requireRole and the handler of GET /admin/plan: the session *)
(* is invalid, the role insufficient, the plan is returned, or a store read *)
(* throws.                                                                  *)
adminPlanHandler(r) ==
    LET req == requests[r] IN
    /\ req.pc = "handler"
    /\ req.url = PlanUrl
    /\ \/ /\ \E reply \in {ErrorReply(InvalidSession), ErrorReply(InsufficientRole),
                            OkReply} :
               requests' = [requests EXCEPT ![r] = Complete(@, reply, clock)]
          /\ UNCHANGED faults
       \/ /\ StoreFails
          /\ requests' = Respond(r, StoreError)
    /\ UNCHANGED <<limiterVars, webhookVars, workerVars>>
    /\ UNCHANGED <<clock, organization, subscription, apiKey, usageDaily, usageEvent,
                   advisoryLock>>

(* ---------------------- Usage Ledger: settle --------------------------- *)
(* A store error inside recordUsage is caught by the hook and logged.       *)
RethrownByHook(req) == Finished([req EXCEPT !.reply = ErrorReply(StoreError)])

CaughtByHook(req) == Finished([req EXCEPT !.logged = TRUE])

SettleFailed(r) ==
    /\ StoreFails
    /\ requests' = [requests EXCEPT ![r] = CaughtByHook(@)]

settleCompensate(r) ==
    LET req == requests[r] IN
    /\ req.pc = "compensate"
    /\ \/ /\ usageDaily' = UpdateManyDecrement(usageDaily, req.apiKey.orgId, METRIC,
                                               req.date, DefaultQuantity)
          /\ requests' = [requests EXCEPT ![r] = Finished(@)]
          /\ UNCHANGED faults
       \/ /\ SettleFailed(r)
          /\ UNCHANGED usageDaily
    /\ UNCHANGED <<limiterVars, webhookVars, workerVars>>
    /\ UNCHANGED <<clock, organization, subscription, apiKey, usageEvent, advisoryLock>>

(* by: the request whose settlement inserted the row (each insert gets a    *)
(* fresh row id); ts is the insert time.                                    *)
EventRow(r, now) ==
    [orgId |-> requests[r].apiKey.orgId, metric |-> METRIC,
     quantity |-> DefaultQuantity, apiKeyId |-> requests[r].apiKey.id,
     ts |-> now, by |-> r]

NeedsTenantRollupAlways(reserved) == TRUE

NeedsTenantRollup(reserved) == ~reserved

settleEvent(r) ==
    LET req == requests[r] IN
    /\ req.pc = "event"
    /\ \/ /\ usageEvent' = Append(usageEvent, EventRow(r, clock))
          /\ requests' = [requests EXCEPT
                            ![r].pc = IF NeedsTenantRollup(req.usageReserved)
                                      THEN "tenantRollup" ELSE "keyRollup"]
          /\ UNCHANGED faults
       \/ /\ SettleFailed(r)
          /\ UNCHANGED usageEvent
    /\ UNCHANGED <<limiterVars, webhookVars, workerVars>>
    /\ UNCHANGED <<clock, organization, subscription, apiKey, usageDaily, advisoryLock>>

settleTenantRollup(r) ==
    LET req == requests[r] IN
    /\ req.pc = "tenantRollup"
    /\ \/ /\ usageDaily' = Upsert(usageDaily, req.apiKey.orgId, METRIC, req.date,
                                  DefaultQuantity)
          /\ requests' = [requests EXCEPT ![r].pc = "keyRollup"]
          /\ UNCHANGED faults
       \/ /\ SettleFailed(r)
          /\ UNCHANGED usageDaily
    /\ UNCHANGED <<limiterVars, webhookVars, workerVars>>
    /\ UNCHANGED <<clock, organization, subscription, apiKey, usageEvent, advisoryLock>>

settleKeyRollup(r) ==
    LET req == requests[r] IN
    /\ req.pc = "keyRollup"
    /\ \/ /\ usageDaily' = Upsert(usageDaily, req.apiKey.orgId,
                                  keyMetric(req.apiKey.id), req.date, DefaultQuantity)
          /\ requests' = [requests EXCEPT ![r] = Finished(@)]
          /\ UNCHANGED faults
       \/ /\ SettleFailed(r)
          /\ UNCHANGED usageDaily
    /\ UNCHANGED <<limiterVars, webhookVars, workerVars>>
    /\ UNCHANGED <<clock, organization, subscription, apiKey, usageEvent, advisoryLock>>

(* --------------------------- environment ------------------------------- *)
Tick ==
    /\ dayBucket(clock) < MaxDay * TicksPerDay
    /\ clock' = clock + TicksPerDay
    /\ UNCHANGED <<limiterVars, webhookVars, workerVars>>
    /\ UNCHANGED <<faults, organization, subscription, apiKey, usageDaily, usageEvent,
                   advisoryLock, requests>>

(* POST /admin/plan *)
updatePlan(o, planLimit) ==
    /\ organization' = [organization EXCEPT ![o].planLimit = planLimit]
    /\ UNCHANGED <<limiterVars, webhookVars, workerVars>>
    /\ UNCHANGED <<clock, faults, subscription, apiKey, usageDaily, usageEvent,
                   advisoryLock, requests>>

(* POST /api-keys: a fresh secret is issued and its prefix and hash stored. *)
createApiKey(o, k) ==
    /\ k \notin DOMAIN apiKey
    /\ apiKey' = [i \in DOMAIN apiKey \cup {k} |->
                    IF i = k
                    THEN [orgId |-> o, prefix |-> prefixFromKey(SecretOf(k)),
                          hash |-> sha256(SecretOf(k)), revokedAt |-> Null,
                          lastUsedAt |-> Null]
                    ELSE apiKey[i]]
    /\ UNCHANGED <<limiterVars, webhookVars, workerVars>>
    /\ UNCHANGED <<clock, faults, organization, subscription, usageDaily, usageEvent,
                   advisoryLock, requests>>

(* DELETE /api-keys/:id: findById scoped to the caller's tenant, then the   *)
(* updateMany that stamps revokedAt.                                        *)
RevokedRowsToggled(keys, o, k, now) ==
    [i \in DOMAIN keys |-> IF i = k /\ keys[i].orgId = o
                           THEN [keys[i] EXCEPT !.revokedAt = IF @ = Null THEN now ELSE Null]
                           ELSE keys[i]]

RevokedRows(keys, o, k, now) ==
    [i \in DOMAIN keys |-> IF i = k /\ keys[i].orgId = o
                           THEN [keys[i] EXCEPT !.revokedAt = now] ELSE keys[i]]

revokeApiKey(o, k) ==
    /\ k \in DOMAIN apiKey
    /\ apiKey[k].orgId = o
    /\ apiKey' = RevokedRows(apiKey, o, k, clock)
    /\ UNCHANGED <<limiterVars, webhookVars, workerVars>>
    /\ UNCHANGED <<clock, faults, organization, subscription, usageDaily, usageEvent,
                   advisoryLock, requests>>

(* ----------------------- subscription events --------------------------- *)
(* The worker's handlers of the Stripe events that write Subscription.      *)
OrgsOf(subs, id) ==
    {o \in Orgs : \E i \in DOMAIN subs[o] : subs[o][i].stripeSubscriptionId = id}

(* checkout.session.completed: the upsert creates the row without a period  *)
(* start; on an existing row it only touches the customer and the status.   *)
handleCheckoutCompleted(o, id) ==
    /\ subscription' =
         IF OrgsOf(subscription, id) # {} THEN subscription
         ELSE [subscription EXCEPT ![o] =
                 Append(@, [stripeSubscriptionId |-> id, currentPeriodStart |-> Null])]
    /\ UNCHANGED <<limiterVars, webhookVars, workerVars>>
    /\ UNCHANGED <<clock, faults, organization, apiKey, usageDaily, usageEvent,
                   advisoryLock, requests>>

(* customer.subscription.updated: current_period_start, or null without it. *)
handleSubscriptionUpdated(id, currentPeriodStart) ==
    /\ currentPeriodStart <= clock
    /\ subscription' =
         [o \in Orgs |->
            [i \in DOMAIN subscription[o] |->
               IF subscription[o][i].stripeSubscriptionId = id
               THEN [subscription[o][i] EXCEPT !.currentPeriodStart = currentPeriodStart]
               ELSE subscription[o][i]]]
    /\ UNCHANGED <<limiterVars, webhookVars, workerVars>>
    /\ UNCHANGED <<clock, faults, organization, apiKey, usageDaily, usageEvent,
                   advisoryLock, requests>>

(* -------------------------- Stripe webhook ----------------------------- *)
(* POST /billing/webhook after the signature is verified.  stripeEvent is   *)
(* the set of stripeId values stored (the column is unique); stripeQueue    *)
(* is the jobs of the stripe-events queue, one per jobId.                   *)
QueueAdd(queue, jobId) ==
    IF \E i \in DOMAIN queue : queue[i] = jobId THEN queue ELSE Append(queue, jobId)

Answered(d, status) == [deliveries EXCEPT ![d].pc = "done", ![d].status = status]

(* findUnique by stripeId: a stored event is answered as a duplicate.       *)
webhookFindUnique(d, event) ==
    /\ deliveries[d].pc = "idle"
    /\ \/ /\ deliveries' = IF event \in stripeEvent
                            THEN [deliveries EXCEPT ![d].pc = "done", ![d].status = 200,
                                                    ![d].event = event]
                            ELSE [deliveries EXCEPT ![d].pc = "create", ![d].event = event]
          /\ UNCHANGED faults
       \/ /\ StoreFails
          /\ deliveries' = [deliveries EXCEPT ![d].pc = "done", ![d].status = 500,
                                              ![d].event = event]
    /\ UNCHANGED <<stripeEvent, stripeQueue, limiterVars, workerVars>>
    /\ UNCHANGED <<clock, organization, subscription, apiKey, usageDaily, usageEvent,
                   advisoryLock, requests>>

(* create: the insert, refused by the unique index when the row exists.     *)
webhookCreate(d) ==
    /\ deliveries[d].pc = "create"
    /\ \/ /\ deliveries[d].event \notin stripeEvent
          /\ stripeEvent' = stripeEvent \cup {deliveries[d].event}
          /\ deliveries' = [deliveries EXCEPT ![d].pc = "add"]
          /\ UNCHANGED faults
       \/ /\ deliveries[d].event \in stripeEvent
          /\ deliveries' = [deliveries EXCEPT ![d].pc = "cleanup"]
          /\ UNCHANGED <<stripeEvent, faults>>
       \/ /\ StoreFails
          /\ deliveries' = [deliveries EXCEPT ![d].pc = "cleanup"]
          /\ UNCHANGED stripeEvent
    /\ UNCHANGED <<stripeQueue, limiterVars, workerVars>>
    /\ UNCHANGED <<clock, organization, subscription, apiKey, usageDaily, usageEvent,
                   advisoryLock, requests>>

(* stripeQueue.add with jobId = event.id, then the 200 reply.               *)
webhookEnqueue(d) ==
    /\ deliveries[d].pc = "add"
    /\ \/ /\ stripeQueue' = QueueAdd(stripeQueue, deliveries[d].event)
          /\ deliveries' = Answered(d, 200)
          /\ UNCHANGED faults
       \/ /\ StoreFails
          /\ deliveries' = [deliveries EXCEPT ![d].pc = "cleanup"]
          /\ UNCHANGED stripeQueue
    /\ UNCHANGED <<stripeEvent, limiterVars, workerVars>>
    /\ UNCHANGED <<clock, organization, subscription, apiKey, usageDaily, usageEvent,
                   advisoryLock, requests>>

(* The catch block: deleteMany by stripeId, then the 500 reply.             *)
webhookCleanup(d) ==
    /\ deliveries[d].pc = "cleanup"
    /\ \/ /\ stripeEvent' = stripeEvent \ {deliveries[d].event}
          /\ UNCHANGED faults
       \/ /\ StoreFails
          /\ UNCHANGED stripeEvent
    /\ deliveries' = Answered(d, 500)
    /\ UNCHANGED <<stripeQueue, limiterVars, workerVars>>
    /\ UNCHANGED <<clock, organization, subscription, apiKey, usageDaily, usageEvent,
                   advisoryLock, requests>>

(* --------------------------- Rate Limiter ------------------------------ *)
(* Text is a sequence of characters, so that trimming, lower-casing and     *)
(* joining are computed.  time is Date.now() in milliseconds.               *)
Unknown == <<"u", "n", "k", "n", "o", "w", "n">>
Dash == <<"-">>
Bar == <<"|">>
NoEmail == [string |-> FALSE, text |-> <<>>]
Emails == {NoEmail} \cup {[string |-> TRUE, text |-> t] : t \in {<<"A">>, <<" ", "a">>}}
Ips == {<<"1">>, <<"2">>}
IdentifierMaxLen == 254

ToLowerCase(c) == IF c = "A" THEN "a" ELSE c

RECURSIVE TrimStart(_)
TrimStart(t) == IF t # <<>> /\ Head(t) = " " THEN TrimStart(Tail(t)) ELSE t

RECURSIVE TrimEnd(_)
TrimEnd(t) == IF t # <<>> /\ t[Len(t)] = " " THEN TrimEnd(SubSeq(t, 1, Len(t) - 1)) ELSE t

normalizeIdentifier(value) ==
    IF ~value.string THEN Unknown
    ELSE LET trimmed == TrimEnd(TrimStart(value.text))
             normalized == [i \in 1..Len(trimmed) |-> ToLowerCase(trimmed[i])]
         IN IF normalized = <<>> THEN Unknown
            ELSE SubSeq(normalized, 1, Min(Len(normalized), IdentifierMaxLen))

RECURSIVE JoinParts(_)
JoinParts(parts) ==
    IF parts = <<>> THEN <<>>
    ELSE Bar \o (IF Head(parts) = <<>> THEN Dash ELSE Head(parts)) \o JoinParts(Tail(parts))

makeBucketKey(scope, keyParts) ==
    LET raw == <<scope>> \o JoinParts(keyParts)
    IN <<scope, sha256(raw)>>

pruneBucketsOpenToo(bk, now) ==
    IF Cardinality(DOMAIN bk) < PruneThreshold THEN bk
    ELSE [k \in {j \in DOMAIN bk : FALSE} |-> bk[k]]

pruneBuckets(bk, now) ==
    IF Cardinality(DOMAIN bk) < PruneThreshold THEN bk
    ELSE [k \in {j \in DOMAIN bk : ~(now >= bk[j].resetAt)} |-> bk[k]]

SetBucket(bk, key, bucket) ==
    [k \in DOMAIN bk \cup {key} |-> IF k = key THEN bucket ELSE bk[k]]

FloorDiv(a, b) == a \div b

CeilDiv(a, b) == (a + b - 1) \div b

NoBucket == [count |-> 0, resetAt |-> 0]
NoError == AppError("", 0, "")
RateLimitError(message, retryAfterSec) ==
    [AppError("RATE_LIMIT", 429, message) EXCEPT !.retryAfterSec = retryAfterSec]

AtLimitNever(count, limit) == FALSE

AtLimitOffByOne(count, limit) == count > limit

AtLimit(count, limit) == count >= limit

WindowElapsedNever(existing, now) == FALSE

WindowElapsed(existing, now) == now >= existing.resetAt

(* enforceRateLimit: the buckets after the call and the error it throws.    *)
enforceRateLimit(bk, options, now) ==
    IF options.limit <= 0 THEN [buckets |-> bk, error |-> NoError]
    ELSE LET windowSec == IF options.windowSec > 0 THEN options.windowSec
                          ELSE DefaultWindowSec
             key == makeBucketKey(options.scope, options.keyParts)
             windowMs == windowSec * MsPerSec
         IN IF key \notin DOMAIN bk \/ WindowElapsed(bk[key], now)
            THEN [buckets |-> pruneBuckets(SetBucket(bk, key, [count |-> 1,
                                                               resetAt |-> now + windowMs]),
                                           now),
                  error |-> NoError]
            ELSE IF AtLimit(bk[key].count, options.limit)
                 THEN [buckets |-> bk,
                       error |-> RateLimitError(options.message,
                                     Max(1, CeilDiv(bk[key].resetAt - now, MsPerSec)))]
                 ELSE [buckets |-> [bk EXCEPT ![key].count = @ + 1], error |-> NoError]

(* What one enforceRateLimit call was asked and what it answered.           *)
Logged(options, now, result) ==
    [key |-> makeBucketKey(options.scope, options.keyParts), limit |-> options.limit,
     at |-> now,
     reply |-> IF result.error = NoError THEN NoReply ELSE ErrorReply(result.error),
     bucket |-> IF makeBucketKey(options.scope, options.keyParts) \in DOMAIN result.buckets
                THEN result.buckets[makeBucketKey(options.scope, options.keyParts)]
                ELSE NoBucket]

RegisterOptions(ip) ==
    [scope |-> "auth_register_ip", keyParts |-> <<ip>>, limit |-> RegisterIpLimit,
     windowSec |-> AuthWindowSec,
     message |-> "Too many registration attempts. Please try again later."]
LoginIpOptions(ip) ==
    [scope |-> "auth_login_ip", keyParts |-> <<ip>>, limit |-> LoginIpLimit,
     windowSec |-> AuthWindowSec,
     message |-> "Too many login attempts. Please try again later."]
LoginIdentifierOptions(identifier) ==
    [scope |-> "auth_login_identifier", keyParts |-> <<identifier>>,
     limit |-> LoginIdentifierLimit, windowSec |-> AuthWindowSec,
     message |-> "Too many login attempts. Please try again later."]

(* POST /auth/register up to its throttle. *)
enforceRegisterRateLimit(ip) ==
    /\ Len(rateLog) < MaxCalls
    /\ LET options == RegisterOptions(IF ip = <<>> THEN Unknown ELSE ip)
           result == enforceRateLimit(buckets, options, time)
       IN /\ buckets' = result.buckets
          /\ rateLog' = Append(rateLog, <<Logged(options, time, result)>>)
    /\ UNCHANGED <<time, ledgerVars, webhookVars, workerVars>>

(* POST /auth/login up to its throttle: the address bucket, then the        *)
(* identifier bucket unless the first call threw.                           *)
enforceLoginRateLimit(ip, email) ==
    /\ Len(rateLog) < MaxCalls
    /\ LET byIp == LoginIpOptions(IF ip = <<>> THEN Unknown ELSE ip)
           byIdentifier == LoginIdentifierOptions(normalizeIdentifier(email))
           first == enforceRateLimit(buckets, byIp, time)
           second == enforceRateLimit(first.buckets, byIdentifier, time)
       IN IF first.error # NoError
          THEN /\ buckets' = first.buckets
               /\ rateLog' = Append(rateLog, <<Logged(byIp, time, first)>>)
          ELSE /\ buckets' = second.buckets
               /\ rateLog' = Append(rateLog, <<Logged(byIp, time, first),
                                               Logged(byIdentifier, time, second)>>)
    /\ UNCHANGED <<time, ledgerVars, webhookVars, workerVars>>

AdvanceTime ==
    /\ time < MaxTime * TimeStepMs
    /\ time' = time + TimeStepMs
    /\ UNCHANGED <<buckets, rateLog, ledgerVars, webhookVars, workerVars>>

(* The headers clients send: any of them, or those of the issued credential *)
(* presented to its own tenant.                                             *)
AnyHeaders ==
    {<<NoAuth, NoHeader>>} \cup ((AuthHeaders \ {NoAuth}) \X (Orgs \cup {NoHeader}))

IssuedHeaders ==
    {<<[scheme |-> "Bearer ", token |-> SecretOf(k)], SeedKeys[k].orgId>> : k \in DOMAIN SeedKeys}

RequestStep(r, inputs) ==
    \/ requireApiKey(r, inputs)
    \/ updateLastUsed(r)
    \/ enforceApiKeyRateLimit(r)
    \/ reserveCheck(r)
    \/ reserveUpsert(r)
    \/ dataHandler(r)
    \/ settleCompensate(r)
    \/ settleEvent(r)
    \/ settleTenantRollup(r)
    \/ settleKeyRollup(r)

NextBurst == \E r \in Reqs : RequestStep(r, IssuedHeaders)

SpecBurst == Init /\ [][NextBurst]_vars

(* Postgres grants the advisory lock to a waiting transaction once it is    *)
(* free, and a transaction that holds it runs on to its commit or rollback. *)
FairBurst ==
    SpecBurst /\ \A r \in Reqs : WF_vars(reserveCheck(r)) /\ WF_vars(reserveUpsert(r))

(* The comparison is followed on a table that also holds a credential of   *)
(* orgA whose stored digest has the token's length or another one.          *)
CompareKeys ==
    {[k \in KeyIds |->
        [orgId |-> "orgA", prefix |-> prefixFromKey(SecretOf(k)),
         hash |-> IF k = "k1" THEN sha256(SecretOf(k)) ELSE digest,
         revokedAt |-> Null, lastUsedAt |-> Null]] :
       digest \in {sha256(SecretOf("k2")), LegacyDigest(SecretOf("k2")),
                   LegacyDigest(SecretOf("k1"))}}

InitCompare ==
    /\ \E keys \in CompareKeys : InitWith(keys)
    /\ \A o \in Orgs : subscription[o] = <<>>

SpecCompare == InitCompare /\ [][\E r \in Reqs : RequestStep(r, AnyHeaders)]_vars

NextGate == NextBurst \/ Tick

SpecGate == Init /\ [][NextGate]_vars

KeyAdmin == \E o \in Orgs, k \in KeyIds : createApiKey(o, k) \/ revokeApiKey(o, k)

NextKeys == (\E r \in Reqs : RequestStep(r, AnyHeaders)) \/ KeyAdmin

(* Credential administration is followed from the start without a          *)
(* subscription row, where the cycle starts today.                          *)
InitKeys == Init /\ \A o \in Orgs : subscription[o] = <<>>

SpecKeys == InitKeys /\ [][NextKeys]_vars

SessionStep(r) == adminPlanArrives(r) \/ adminPlanHandler(r)

NextRoutes == \E r \in Reqs : RequestStep(r, AnyHeaders) \/ SessionStep(r)

SpecRoutes == Init /\ [][NextRoutes]_vars

NextLimiter ==
    \/ \E ip \in Ips : enforceRegisterRateLimit(ip)
    \/ \E ip \in Ips, email \in Emails : enforceLoginRateLimit(ip, email)
    \/ AdvanceTime

(* The throttle is followed from one state of the tables, which it never   *)
(* reads.                                                                   *)
InitLimiter == InitKeys /\ organization["orgA"].planLimit = 1

SpecLimiter == InitLimiter /\ [][NextLimiter]_vars

NextWebhook ==
    \E d \in Deliveries :
       \/ \E event \in EventIds : webhookFindUnique(d, event)
       \/ webhookCreate(d)
       \/ webhookEnqueue(d)
       \/ webhookCleanup(d)

SpecWebhook == InitLimiter /\ [][NextWebhook]_vars

(* Period starts Stripe reports: none, a midnight, or a time within a day. *)
PeriodStarts == {Null, SeedDay + 1, StartDay}

NextCycle ==
    \/ NextBurst
    \/ \E id \in SubscriptionIds : handleCheckoutCompleted("orgA", id)
    \/ \E id \in SubscriptionIds, start \in PeriodStarts :
         handleSubscriptionUpdated(id, start)

SpecCycle == Init /\ [][NextCycle]_vars

(* --------------------------- usage-rollups job ------------------------- *)
Instants == 0..(MaxDay * TicksPerDay + TicksPerDay - 1)

(* new Date(Date.UTC(y, m, d)): the start of the date's UTC day.            *)
utcDay(date) == date - (date % TicksPerDay)

EventsOn(events, o, m, bucket) ==
    {i \in 1..Len(events) : /\ events[i].orgId = o
                            /\ events[i].metric = m
                            /\ events[i].ts >= bucket
                            /\ events[i].ts < bucket + TicksPerDay}

SumQuantity(events, S) ==
    SumOver(S, [i \in 1..Len(events) |-> events[i].quantity])

(* SELECT "orgId", metric, SUM(quantity) ... GROUP BY "orgId", metric        *)
GroupRows(events, bucket) ==
    {[orgId |-> events[i].orgId, metric |-> events[i].metric,
      quantity |-> SumQuantity(events, EventsOn(events, events[i].orgId,
                                                events[i].metric, bucket))] :
       i \in {j \in 1..Len(events) : /\ events[j].ts >= bucket
                                     /\ events[j].ts < bucket + TicksPerDay}}

(* upsert with update: { quantity: row.quantity }                           *)
SetQuantity(ud, o, m, d, q) ==
    [k \in DOMAIN ud \cup {RowKey(o, m, d)} |->
        IF k = RowKey(o, m, d) THEN q ELSE ud[k]]

(* The job starts: the bucket and the grouped sums are read.                *)
rollupQuery(date) ==
    /\ usageJob.pc = "idle"
    /\ usageJob.runs < MaxRuns
    /\ LET bucket == utcDay(date)
           rows == GroupRows(usageEvent, bucket)
       IN usageJob' = IF rows = {} THEN IdleJob(usageJob.runs + 1)
                      ELSE [pc |-> "upsert", bucket |-> bucket, rows |-> rows,
                            runs |-> usageJob.runs + 1]
    /\ UNCHANGED <<ledgerVars, limiterVars, webhookVars>>

(* One turn of the loop: the upsert of a row, or a store error that ends    *)
(* the job.                                                                 *)
rollupUpsert ==
    /\ usageJob.pc = "upsert"
    /\ \E row \in usageJob.rows :
         \/ /\ usageDaily' = SetQuantity(usageDaily, row.orgId, row.metric,
                                          usageJob.bucket, row.quantity)
            /\ usageJob' = IF usageJob.rows = {row} THEN IdleJob(usageJob.runs)
                           ELSE [usageJob EXCEPT !.rows = @ \ {row}]
            /\ UNCHANGED faults
         \/ /\ StoreFails
            /\ usageJob' = IdleJob(usageJob.runs)
            /\ UNCHANGED usageDaily
    /\ UNCHANGED <<limiterVars, webhookVars>>
    /\ UNCHANGED <<clock, organization, subscription, apiKey, usageEvent, advisoryLock,
                   requests>>

rollupUsage == (\E date \in Instants : rollupQuery(date)) \/ rollupUpsert

NextWorker == NextGate \/ rollupUsage

SpecWorker == Init /\ [][NextWorker]_vars

(* The ledger with its administration and the clock.  The throttle, the    *)
(* webhook and the subscription events are followed in the specifications  *)
(* above.                                                                   *)
Next ==
    \/ NextKeys
    \/ \E r \in Reqs : SessionStep(r)
    \/ Tick
    \/ \E o \in Orgs, l \in 1..MaxPlanLimit : updatePlan(o, l)

Spec == Init /\ [][Next]_vars

(* ============================ properties =============================== *)
AfterReserve == {"handler", "compensate", "event", "tenantRollup", "keyRollup", "done"}
InFlightPcs == {"handler", "compensate", "event"}

IdentifiedAs(o) == {r \in Reqs : requests[r].apiKey.orgId = o}
Admitted(o) == {r \in IdentifiedAs(o) : requests[r].usageReserved}
QuotaRejected(o) ==
    {r \in IdentifiedAs(o) : requests[r].reply = ErrorReply(UsageLimitExceeded)}
KeyLimited(o) ==
    {r \in IdentifiedAs(o) : requests[r].reply = ErrorReply(KeyRateLimited)}
(* The requests whose enforceUsageLimit call has returned or thrown.         *)
ReserveCalls(o) == {r \in IdentifiedAs(o) : requests[r].pc \in AfterReserve} \ KeyLimited(o)
ReserveRunning(o) == {r \in IdentifiedAs(o) : requests[r].pc = "txUpsert"}

(* The rollup the tenant's cycle held before the first request arrived.      *)
UsedBefore(o) ==
    SumOver({k \in DOMAIN SeedRollup :
               /\ k[1] = o
               /\ k[2] = METRIC
               /\ k[3] >= getBillingCycleStart(subscription, o, StartDay)}, SeedRollup)

EventsBy(r) == {i \in DOMAIN usageEvent : usageEvent[i].by = r}

TenantTotalSince(o, d) == Aggregate(usageDaily, o, d)

(* C1: with the tenant's quota, cycle and day unchanged and no store error,  *)
(* once no reserve transaction of the tenant is running, the reserve calls   *)
(* made so far admitted exactly min(N, planLimit - used) requests and        *)
(* rejected every other one with RATE_LIMIT 429 "Usage limit exceeded".      *)
QuotaExactness ==
    \A o \in Orgs :
      (faults = 0 /\ KeyLimited(o) = {} /\ ReserveRunning(o) = {})
      => /\ Cardinality(Admitted(o)) =
              Min(Cardinality(ReserveCalls(o)),
                  Max(0, organization[o].planLimit - UsedBefore(o)))
         /\ \A r \in ReserveCalls(o) \ Admitted(o) :
              /\ requests[r].reply = ErrorReply(UsageLimitExceeded)
              /\ requests[r].reply.status = 429
              /\ requests[r].reply.code = "RATE_LIMIT"

(* Two requests raced at the limit boundary: one holds its reservation and   *)
(* has not settled, the other was rejected.                                  *)
QuotaBoundaryWitness ==
    \E o \in Orgs, r1, r2 \in Reqs :
      /\ faults = 0 /\ KeyLimited(o) = {} /\ ReserveRunning(o) = {}
      /\ organization[o].planLimit - UsedBefore(o) = 1
      /\ r1 \in Admitted(o) /\ requests[r1].pc = "handler"
      /\ r2 \in QuotaRejected(o)
      /\ Cardinality(ReserveCalls(o)) = 2

(* C2: when every request of a tenant was admitted and completed with a      *)
(* non-5xx status and settled, today's tenant-wide rollup is exactly their   *)
(* number higher than before (today's row did not exist before).             *)
ConcurrentIncrementsExact ==
    \A o \in Orgs :
      (/\ faults = 0
       /\ \A r \in IdentifiedAs(o) : /\ requests[r].pc = "done"
                                     /\ requests[r].usageReserved
                                     /\ requests[r].reply.status < 500)
      => Quantity(usageDaily, o, METRIC, dayBucket(clock))
           = Quantity(SeedRollup, o, METRIC, dayBucket(clock))
             + Cardinality(IdentifiedAs(o)) * DefaultQuantity

(* Two admitted requests that overlapped (the per-key limit of one call a    *)
(* day lets the second pass only before the first has settled) both         *)
(* completed with 200.                                                       *)
ConcurrentIncrementsWitness ==
    \E o \in Orgs :
      /\ faults = 0
      /\ Cardinality(IdentifiedAs(o)) = 2
      /\ \A r \in IdentifiedAs(o) : /\ requests[r].pc = "done"
                                    /\ requests[r].usageReserved
                                    /\ requests[r].reply = OkReply

Billed(r) ==
    /\ requests[r].pc = "done"
    /\ requests[r].usageReserved
    /\ requests[r].reply.status < 500
    /\ ~requests[r].logged

(* C3: a request that was reserved, completed below 500 and settled without  *)
(* a store error has exactly one UsageEvent row (api_requests, the settled   *)
(* quantity, its credential), and when all requests of a tenant are such the *)
(* tenant-wide rollup rows written by them sum to one quantity per request.  *)
NoDoubleBilling ==
    /\ \A r \in Reqs :
         Billed(r) =>
           /\ Cardinality(EventsBy(r)) = 1
           /\ \A i \in EventsBy(r) :
                /\ usageEvent[i].metric = METRIC
                /\ usageEvent[i].quantity = DefaultQuantity
                /\ usageEvent[i].apiKeyId = requests[r].apiKey.id
                /\ usageEvent[i].orgId = requests[r].apiKey.orgId
    /\ \A o \in Orgs :
         (\A r \in IdentifiedAs(o) : Billed(r))
         => TenantTotalSince(o, StartDay) = Cardinality(IdentifiedAs(o)) * DefaultQuantity

(* A billed request whose reservation and settlement fell on different days. *)
NoDoubleBillingWitness ==
    \E r \in Reqs :
      /\ Billed(r)
      /\ \E i \in EventsBy(r) : dayBucket(usageEvent[i].ts) > StartDay
      /\ Quantity(usageDaily, requests[r].apiKey.orgId, METRIC, StartDay) = DefaultQuantity

OnlyRequest(r) == \A q \in Reqs \ {r} : requests[q].pc = "idle"

RollupAsBefore ==
    \A o \in Orgs, m \in Metrics, d \in Days :
      Quantity(usageDaily, o, m, d) = Quantity(SeedRollup, o, m, d)

(* C4: a sequential request whose reservation committed and whose response   *)
(* status is >= 500 leaves, once settled, every rollup row (tenant-wide and  *)
(* per-credential) at its pre-request value and appends no UsageEvent row,   *)
(* whatever time passed between reserve and settle.                          *)
CompensationNetZero ==
    \A r \in Reqs :
      ( /\ requests[r].pc = "done"
        /\ requests[r].usageReserved
        /\ requests[r].reply.status >= 500
        /\ ~requests[r].logged
        /\ OnlyRequest(r) )
      => /\ RollupAsBefore
         /\ usageEvent = SeedEvents

(* C5: a sequential request rejected by the quota check is answered          *)
(* RATE_LIMIT 429, makes no reservation, and once it has completed, its      *)
(* response-completion hook included, the UsageRollup and UsageEvent rows    *)
(* are exactly as they were before the request.                              *)
QuotaRejectionNoSideEffects ==
    \A r \in Reqs :
      ( /\ requests[r].pc = "done"
        /\ requests[r].reply = ErrorReply(UsageLimitExceeded)
        /\ ~requests[r].logged
        /\ OnlyRequest(r) )
      => /\ ~requests[r].usageReserved
         /\ RollupAsBefore
         /\ usageEvent = SeedEvents

EventTotalSince(o, d) ==
    SumOver({i \in DOMAIN usageEvent : usageEvent[i].orgId = o /\ usageEvent[i].ts >= d},
            [i \in DOMAIN usageEvent |-> usageEvent[i].quantity])

ReservationsInFlight(o) ==
    {r \in Admitted(o) : requests[r].pc \in InFlightPcs}

(* C6: in every reachable state and for every tenant, the tenant-wide        *)
(* api_requests rollup summed over the days of the current billing cycle     *)
(* equals the quantities of the tenant's UsageEvent rows in the cycle plus   *)
(* the number of reservations in flight (reserved, not yet settled).         *)
LedgerBalanced ==
    \A o \in Orgs :
      TenantTotalSince(o, getBillingCycleStart(subscription, o, dayBucket(clock)))
        = EventTotalSince(o, getBillingCycleStart(subscription, o, dayBucket(clock)))
            + Cardinality(ReservationsInFlight(o))

(* The step in which request r presents its headers to requireApiKey.        *)
AuthStep(r) == requests[r].pc = "idle" /\ requests'[r].pc # "idle"

Bearer(req) == req.authorization.scheme = "Bearer "

Authenticated(req) == req.apiKey # NoKey

Rejected(req) ==
    /\ req.pc = "done"
    /\ req.apiKey = NoKey
    /\ req.reply = ErrorReply(InvalidApiKey)
    /\ req.reply.status = 401
    /\ req.reply.code = "UNAUTHORIZED"
    /\ req.reply.message = "Invalid API key"

(* The stored credentials whose hash is the hash of the token.               *)
Owners(keys, token) == {k \in DOMAIN keys : keys[k].hash = sha256(token)}

(* C7: requireApiKey succeeds exactly when a stored credential belongs to    *)
(* the tenant declared in X-Org-Id, is not revoked, has the token's prefix   *)
(* and a hash equal to the token's hash; the identity attached is that       *)
(* credential's id and tenant; a credential matching by prefix only never    *)
(* authenticates.                                                            *)
AuthenticatesExactly ==
    [][\A r \in Reqs :
         AuthStep(r) =>
           LET req == requests'[r]
               token == req.authorization.token
               creds == {k \in DOMAIN apiKey :
                           /\ apiKey[k].orgId = req.orgHeader
                           /\ apiKey[k].revokedAt = Null
                           /\ apiKey[k].prefix = prefixFromKey(token)
                           /\ apiKey[k].hash = sha256(token)}
           IN /\ Authenticated(req) <=> (Bearer(req) /\ creds # {})
              /\ Authenticated(req) =>
                   \E k \in creds : req.apiKey = [id |-> k, orgId |-> apiKey[k].orgId]
              /\ \A k \in DOMAIN apiKey :
                   (apiKey[k].prefix = prefixFromKey(token) /\ apiKey[k].hash # sha256(token))
                   => req.apiKey.id # k]_vars

(* One request authenticated with the secret of k1 while another, presenting *)
(* a token no credential was issued for and that has k1's prefix, was        *)
(* rejected.                                                                 *)
AuthenticatesExactlyWitness ==
    \E r, q \in Reqs :
      /\ requests[r].authorization.token = SecretOf("k1")
      /\ requests[r].orgHeader = "orgA"
      /\ requests[r].apiKey = [id |-> "k1", orgId |-> "orgA"]
      /\ requests[q].authorization.token = SecretOf("k2")
      /\ prefixFromKey(SecretOf("k2")) = apiKey["k1"].prefix
      /\ "k2" \notin DOMAIN apiKey
      /\ requests[q].orgHeader = "orgA"
      /\ Rejected(requests[q])
      /\ apiKey["k1"].revokedAt = Null

(* C8: a request presenting the secret of a credential of one tenant while   *)
(* declaring another tenant is rejected with UNAUTHORIZED and never matched, *)
(* and every identity, UsageEvent row and rollup row names the tenant that   *)
(* owns the credential.                                                      *)
CrossTenantIsolation ==
    /\ \A r \in Reqs :
         (requests[r].pc # "idle" /\ Bearer(requests[r]) /\ requests[r].orgHeader \in Orgs)
         => /\ (\E k \in Owners(apiKey, requests[r].authorization.token) :
                  apiKey[k].orgId # requests[r].orgHeader)
               => Rejected(requests[r])
            /\ Authenticated(requests[r])
               => /\ requests[r].apiKey.id \in Owners(apiKey, requests[r].authorization.token)
                  /\ apiKey[requests[r].apiKey.id].orgId = requests[r].apiKey.orgId
                  /\ requests[r].apiKey.orgId = requests[r].orgHeader
    /\ \A i \in DOMAIN usageEvent :
         /\ usageEvent[i].apiKeyId \in DOMAIN apiKey
         /\ apiKey[usageEvent[i].apiKeyId].orgId = usageEvent[i].orgId
    /\ \A o \in Orgs, k \in KeyIds, d \in Days :
         HasRow(usageDaily, o, keyMetric(k), d)
         => (k \in DOMAIN apiKey /\ apiKey[k].orgId = o)
    /\ \A o \in Orgs, d \in Days :
         Quantity(usageDaily, o, METRIC, d) > Quantity(SeedRollup, o, METRIC, d)
         => \E r \in IdentifiedAs(o) : apiKey[requests[r].apiKey.id].orgId = o

(* The active credential of tenant A was presented with tenant B declared    *)
(* and the request was rejected.                                             *)
CrossTenantWitness ==
    \E r \in Reqs :
      /\ requests[r].authorization.token = SecretOf("k1")
      /\ requests[r].orgHeader = "orgB"
      /\ apiKey["k1"].orgId = "orgA"
      /\ apiKey["k1"].revokedAt = Null
      /\ Rejected(requests[r])
      /\ \A d \in Days : Quantity(usageDaily, "orgB", METRIC, d) = 0

(* C9: no step clears a credential's revokedAt, and an authentication that   *)
(* starts while the credential of the presented secret is revoked, with a    *)
(* tenant declared, fails with UNAUTHORIZED.                                 *)
RevokedNeverAuthenticates ==
    [][/\ \A k \in DOMAIN apiKey :
            apiKey[k].revokedAt # Null
            => (k \in DOMAIN apiKey' /\ apiKey'[k].revokedAt # Null)
       /\ \A r \in Reqs :
            ( /\ AuthStep(r)
              /\ Bearer(requests'[r])
              /\ requests'[r].orgHeader \in Orgs
              /\ \E k \in Owners(apiKey, requests'[r].authorization.token) :
                   apiKey[k].revokedAt # Null )
            => Rejected(requests'[r])]_vars

(* A credential that had authenticated a request is revoked, and a request   *)
(* presenting its secret in its own tenant was rejected.                     *)
RevokedWitness ==
    \E r \in Reqs, k \in DOMAIN apiKey :
      /\ apiKey[k].revokedAt # Null
      /\ apiKey[k].lastUsedAt # Null
      /\ requests[r].authorization.token = SecretOf(k)
      /\ requests[r].orgHeader = apiKey[k].orgId
      /\ Rejected(requests[r])

(* C10: for a presented bearer token and declared tenant with no active      *)
(* credential of that tenant, the outcome of authentication is one and the   *)
(* same whether the credential never existed, is revoked or belongs to       *)
(* another tenant: 401 UNAUTHORIZED "Invalid API key", the request record a  *)
(* function of the token and tenant alone, and no stored row changed.        *)
UnauthorizedIndistinguishable ==
    [][\A r \in Reqs :
         ( /\ AuthStep(r)
           /\ Bearer(requests'[r])
           /\ requests'[r].orgHeader \in Orgs )
         => LET req == requests'[r]
                owners == Owners(apiKey, req.authorization.token)
                neverExisted == owners = {}
                revoked == \E k \in owners : apiKey[k].revokedAt # Null
                otherTenant == \E k \in owners : apiKey[k].orgId # req.orgHeader
            IN (neverExisted \/ revoked \/ otherTenant)
               => /\ req = [NewRequest EXCEPT
                              !.url = DataUrl,
                              !.authorization = req.authorization,
                              !.orgHeader = req.orgHeader,
                              !.reply = ErrorReply(InvalidApiKey),
                              !.pc = "done"]
                  /\ req.reply.status = 401
                  /\ req.reply.code = "UNAUTHORIZED"
                  /\ req.reply.message = "Invalid API key"
                  /\ UNCHANGED <<apiKey, usageDaily, usageEvent, organization,
                                 subscription, advisoryLock>>]_vars

(* The revoked credential of the declared tenant and a credential that never *)
(* existed were presented, and the two request records differ in the token   *)
(* only.                                                                     *)
UnauthorizedWitness ==
    \E r, q \in Reqs :
      /\ requests[r].authorization.token = SecretOf("k1")
      /\ requests[r].orgHeader = "orgA"
      /\ apiKey["k1"].revokedAt # Null
      /\ Rejected(requests[r])
      /\ requests[q].authorization.token = SecretOf("k2")
      /\ requests[q].orgHeader = "orgA"
      /\ "k2" \notin DOMAIN apiKey
      /\ Rejected(requests[q])
      /\ [requests[r] EXCEPT !.authorization = NoAuth]
           = [requests[q] EXCEPT !.authorization = NoAuth]

OverQuota(o) ==
    OverLimit(TenantTotalSince(o, getBillingCycleStart(subscription, o, dayBucket(clock))),
              organization[o].planLimit)

(* C11: on GET /data every request passes requireApiKey, with the lastUsedAt *)
(* update and the key-level limit, before enforceUsageLimit, and the         *)
(* reservation and the handler run only for an authenticated request; a      *)
(* request with a missing or invalid credential is finished with 401         *)
(* UNAUTHORIZED in the step that presents it, with no rollup, event or lock  *)
(* changed, whatever the declared tenant's usage.                            *)
AuthBeforeReserve ==
    [][\A r \in Reqs :
         LET a == requests[r]
             b == requests'[r]
         IN b.url = DataUrl =>
              /\ (b.pc = "reserve" /\ a.pc # "reserve")
                 => (a.pc = "keyLimit" /\ Authenticated(a))
              /\ (b.pc = "txUpsert" /\ a.pc # "txUpsert")
                 => (a.pc = "reserve" /\ Authenticated(a))
              /\ (b.usageReserved /\ ~a.usageReserved) => a.pc = "txUpsert"
              /\ (b.pc = "handler" /\ a.pc # "handler")
                 => (a.pc = "txUpsert" /\ b.usageReserved)
              /\ (a.pc = "idle" /\ b.pc # "idle" /\ ~Authenticated(b))
                 => /\ b.pc = "done"
                    /\ ~b.usageReserved
                    /\ (~Bearer(b) \/ b.orgHeader \in Orgs)
                       => (b.reply.status = 401 /\ b.reply.code = "UNAUTHORIZED")
                    /\ UNCHANGED <<usageDaily, usageEvent, advisoryLock>>]_vars

(* A request without a credential and one with an invalid credential         *)
(* declaring orgA were rejected while orgA was over quota from the start.    *)
AuthBeforeReserveWitness ==
    \E r, q \in Reqs :
      /\ requests[r].url = DataUrl
      /\ requests[r].orgHeader = "orgA"
      /\ Rejected(requests[r])
      /\ requests[q].url = DataUrl
      /\ requests[q].pc = "done"
      /\ requests[q].reply = ErrorReply(MissingApiKey)
      /\ OverQuota("orgA")
      /\ usageDaily = SeedRollup
      /\ usageEvent = SeedEvents

(* C12: a session-authenticated request (GET /admin/plan) carries no API-key *)
(* identity, and none of its steps reserves, settles, takes the tenant lock  *)
(* or changes a UsageDaily or UsageEvent row; enforceUsageLimit lets it      *)
(* through to the handler and it is never answered 429, whatever the         *)
(* declared tenant's usage.                                                  *)
SessionBypass ==
    [][\A r \in Reqs :
         LET a == requests[r]
             b == requests'[r]
         IN (b.url = PlanUrl /\ a # b) =>
              /\ b.apiKey = NoKey
              /\ ~b.usageReserved
              /\ b.reply.status # 429
              /\ b.reply # ErrorReply(UsageLimitExceeded)
              /\ a.pc = "reserve" => b.pc = "handler"
              /\ b.pc \in {"reserve", "handler", "done"}
              /\ UNCHANGED <<usageDaily, usageEvent, advisoryLock>>]_vars

(* A session request declaring orgA was answered 200 while orgA was over     *)
(* quota, and the ledger is as it started.                                   *)
SessionBypassWitness ==
    \E r \in Reqs :
      /\ requests[r].url = PlanUrl
      /\ requests[r].orgHeader = "orgA"
      /\ requests[r].pc = "done"
      /\ requests[r].reply = OkReply
      /\ OverQuota("orgA")
      /\ usageDaily = SeedRollup
      /\ usageEvent = SeedEvents

(* C13: once every request of a tenant that reserved has completed and its   *)
(* settlement ran without a store error, each of them ended with exactly one *)
(* UsageEvent and its reservation kept (status < 500) or with no UsageEvent  *)
(* and its reservation taken back (status >= 500): never neither, never both.*)
SettledExactlyOnce ==
    \A o \in Orgs :
      (\A r \in IdentifiedAs(o) :
         requests[r].pc = "done" /\ requests[r].usageReserved /\ ~requests[r].logged)
      => /\ \A r \in IdentifiedAs(o) :
              Cardinality(EventsBy(r)) = IF requests[r].reply.status < 500 THEN 1 ELSE 0
         /\ Aggregate(usageDaily, o, SeedDay)
              = Aggregate(SeedRollup, o, SeedDay)
                  + Cardinality({r \in IdentifiedAs(o) : requests[r].reply.status < 500})
                      * DefaultQuantity

SettlePcs == {"compensate", "event", "tenantRollup", "keyRollup"}

(* C14: no step of settlement changes the reply the client was sent, and a   *)
(* store error in any settlement statement ends the hook with the failure    *)
(* logged and the reply as it was.                                           *)
SettleFailureInvisible ==
    [][\A r \in Reqs :
         LET a == requests[r]
             b == requests'[r]
         IN (a.pc \in SettlePcs /\ a # b) =>
              /\ b.reply = a.reply
              /\ b.pc \in SettlePcs \cup {"done"}
              /\ faults' # faults <=> b.logged
              /\ b.logged => b.pc = "done"]_vars

(* An admitted request answered 200 whose event write failed: the failure is *)
(* logged, no event row exists for it and the reply is still the 200.        *)
SettleFailureWitness ==
    \E r \in Reqs :
      /\ requests[r].pc = "done"
      /\ requests[r].logged
      /\ requests[r].usageReserved
      /\ requests[r].reply = OkReply
      /\ EventsBy(r) = {}

(* ---------------------------- rate limiter ----------------------------- *)
RECURSIVE Flatten(_)
Flatten(calls) == IF calls = <<>> THEN <<>> ELSE Head(calls) \o Flatten(Tail(calls))

Entries == Flatten(rateLog)
WindowMs == AuthWindowSec * MsPerSec
Limited(e) == e.reply.status = 429 /\ e.reply.code = "RATE_LIMIT"
Allowed(e) == e.reply = NoReply

PrevSame(log, i) ==
    LET before == {j \in 1..(i - 1) : log[j].key = log[i].key}
    IN IF before = {} THEN 0 ELSE CHOOSE j \in before : \A h \in before : h <= j

(* The time of the call that opened the window the i-th call falls in,     *)
(* from the times of the calls alone.                                       *)
RECURSIVE WindowStart(_, _)
WindowStart(log, i) ==
    IF PrevSame(log, i) = 0 THEN log[i].at
    ELSE LET s == WindowStart(log, PrevSame(log, i))
         IN IF log[i].at >= s + WindowMs THEN log[i].at ELSE s

Rank(log, i) ==
    Cardinality({j \in 1..i : /\ log[j].key = log[i].key
                              /\ WindowStart(log, j) = WindowStart(log, i)})

(* C15: within one window of a bucket key with limit L > 0 the first L      *)
(* calls are allowed and every further call before resetAt fails with       *)
(* RATE_LIMIT (429); a rejected call leaves the count at L and resetAt at   *)
(* the opening call's time plus the window.                                 *)
WindowAllowsAtMostLimit ==
    \A i \in DOMAIN Entries :
      LET e == Entries[i]
      IN e.limit > 0 =>
           /\ Rank(Entries, i) <= e.limit => Allowed(e)
           /\ Rank(Entries, i) > e.limit => Limited(e)
           /\ e.bucket.count = Min(Rank(Entries, i), e.limit)
           /\ e.bucket.resetAt = WindowStart(Entries, i) + WindowMs

(* Two calls were allowed in one window and a third one was rejected in it. *)
WindowAllowsAtMostLimitWitness ==
    \E i \in DOMAIN Entries :
      /\ Entries[i].limit = LoginIpLimit
      /\ Rank(Entries, i) = LoginIpLimit + 1
      /\ Limited(Entries[i])
      /\ Entries[i].at > WindowStart(Entries, i)

(* C16: a call made when its key has no bucket, or at or after the resetAt  *)
(* of the bucket it has, is allowed whatever the old count was and leaves   *)
(* count = 1 and resetAt = now + window.                                    *)
FreshWindowAfterReset ==
    [][\A i \in (DOMAIN Flatten(rateLog')) \ DOMAIN Entries :
         LET e == Flatten(rateLog')[i]
         IN (e.limit > 0 /\ (e.key \notin DOMAIN buckets \/ time >= buckets[e.key].resetAt))
              => /\ Allowed(e)
                 /\ e.bucket = [count |-> 1, resetAt |-> time + WindowMs]
                 /\ buckets'[e.key] = e.bucket]_vars

(* A caller was rejected and, once the window had elapsed, allowed again.   *)
FreshWindowAfterResetWitness ==
    \E i, j \in DOMAIN Entries :
      /\ i < j
      /\ Entries[i].key = Entries[j].key
      /\ Limited(Entries[i])
      /\ Allowed(Entries[j])
      /\ Entries[j].bucket = [count |-> 1, resetAt |-> Entries[j].at + WindowMs]

(* C17: every 429 RATE_LIMIT response, from the plan-quota check, from the  *)
(* per-credential limit or from the login and registration throttle,        *)
(* carries a retry-after hint in its body and a Retry-After header.         *)
RetryHint(reply) ==
    (reply.status = 429 /\ reply.code = "RATE_LIMIT")
       => (reply.retryAfterSec > 0 /\ reply.retryAfterHeader > 0)

RetryHintCarried ==
    /\ \A r \in Reqs : RetryHint(requests[r].reply)
    /\ \A i \in DOMAIN Entries : RetryHint(Entries[i].reply)

(* The requests of credential k that went on from the key-level check to    *)
(* the quota reservation.                                                   *)
PassedKeyCheck(k) ==
    {r \in Reqs : /\ requests[r].apiKey.id = k
                  /\ \/ requests[r].pc \in {"reserve", "txUpsert"}
                     \/ requests[r].usageReserved
                     \/ requests[r].reply = ErrorReply(UsageLimitExceeded)}

(* C18: of the requests presenting one credential within one limit window   *)
(* (here one UTC day, with no call of the credential settled before), at    *)
(* most ApiKeyRateLimit pass the key-level check, in any interleaving.      *)
KeyLimitBoundsPasses ==
    \A k \in KeyIds : Cardinality(PassedKeyCheck(k)) <= ApiKeyRateLimit

(* -------------------------- billing cycle ------------------------------ *)
(* The cycle start as the instant stored on the most recently created      *)
(* subscription, or the start of the current UTC day without one.           *)
PeriodStartOf(o) ==
    IF subscription[o] # <<>> /\ subscription[o][Len(subscription[o])].currentPeriodStart # Null
    THEN subscription[o][Len(subscription[o])].currentPeriodStart
    ELSE dayBucket(clock)

UsedSince(o, start) ==
    SumOver({k \in DOMAIN usageDaily : k[1] = o /\ k[2] = METRIC /\ k[3] >= start},
            usageDaily)

ReserveChecked(r) == requests[r].pc = "reserve" /\ requests'[r].pc # "reserve"

(* C19: every reservation attempt resolves the cycle start anew as the      *)
(* currentPeriodStart of the most recent subscription (today's start        *)
(* without one) and is rejected exactly when the tenant-wide rows dated on  *)
(* or after that start sum to the plan limit or more; rows dated strictly   *)
(* before it never count.                                                   *)
CycleStartResolved ==
    [][\A r \in Reqs :
         (ReserveChecked(r) /\ requests[r].apiKey.orgId \in Orgs)
           => LET o == requests[r].apiKey.orgId
              IN (requests'[r].reply = ErrorReply(UsageLimitExceeded))
                   <=> (UsedSince(o, PeriodStartOf(o)) >= organization[o].planLimit)]_vars

(* ------------------------------ webhook -------------------------------- *)
DeliveriesOf(event) == {d \in Deliveries : deliveries[d].event = event}
Enqueued(event) == Cardinality({i \in DOMAIN stripeQueue : stripeQueue[i] = event})

(* C20: once every delivery of an event id has completed, with no storage  *)
(* or queue failure, exactly one StripeEvent row of that id is stored and   *)
(* the event has been enqueued exactly once, in any interleaving of the     *)
(* deliveries.                                                              *)
WebhookStoredOnce ==
    \A event \in EventIds :
      ( /\ faults = 0
        /\ DeliveriesOf(event) # {}
        /\ \A d \in DeliveriesOf(event) : deliveries[d].pc = "done" )
        => (event \in stripeEvent /\ Enqueued(event) = 1)

(* C21: a rejection advertises retryAfterSec = max(1, ceil((resetAt - now)  *)
(* / 1000)): a whole number of seconds, at least 1, at most the window      *)
(* length, never shorter than the time left until the bucket resets and     *)
(* less than a second longer unless the floor of 1 applies.                 *)
Remaining(e) == e.bucket.resetAt - e.at

RetryAfterCoversRemaining ==
    \A i \in DOMAIN Entries :
      LET e == Entries[i]
          n == e.reply.retryAfterSec
      IN Limited(e) =>
           /\ n \in Nat
           /\ n >= 1
           /\ n <= AuthWindowSec
           /\ n * MsPerSec >= Remaining(e)
           /\ n > 1 => (n - 1) * MsPerSec < Remaining(e)
           /\ e.reply.retryAfterHeader = n

(* A rejection with more than one second and a fraction left is told two.   *)
RetryAfterWitness ==
    \E i, j \in DOMAIN Entries :
      /\ Limited(Entries[i]) /\ Limited(Entries[j])
      /\ Remaining(Entries[i]) > MsPerSec
      /\ Remaining(Entries[i]) % MsPerSec # 0
      /\ Entries[i].reply.retryAfterSec = 2
      /\ Remaining(Entries[j]) < MsPerSec
      /\ Entries[j].reply.retryAfterSec = 1

(* What the bucket of a key answers to a call at time now.                  *)
WouldAllow(bk, key, limit, now) ==
    \/ limit <= 0
    \/ key \notin DOMAIN bk
    \/ now >= bk[key].resetAt
    \/ bk[key].count < limit

NewCalls == {i \in DOMAIN rateLog' : i \notin DOMAIN rateLog}
KeysOf(call) == {call[i].key : i \in DOMAIN call}
Admits(call) == \A i \in DOMAIN call : Allowed(call[i])
IsLogin(call) == call[1].key[1] = "auth_login_ip"
OpenBuckets(bk, now) == {k \in DOMAIN bk : now < bk[k].resetAt}

(* C22: a login attempt is admitted exactly when its address bucket and its *)
(* identifier bucket both allow it, the second being asked only when the    *)
(* first allowed; and a call leaves every bucket of another key whose       *)
(* window is open as it was and creates no bucket of another key.           *)
LoginThrottleComposes ==
    [][\A c \in NewCalls :
         LET call == rateLog'[c]
         IN /\ IsLogin(call) =>
                 LET ipAllows == WouldAllow(buckets, call[1].key, LoginIpLimit, time)
                 IN /\ Allowed(call[1]) <=> ipAllows
                    /\ Len(call) = (IF ipAllows THEN 2 ELSE 1)
                    /\ ipAllows =>
                         /\ call[2].key[1] = "auth_login_identifier"
                         /\ Allowed(call[2]) <=>
                               WouldAllow(buckets, call[2].key, LoginIdentifierLimit, time)
                    /\ Admits(call) <=>
                         (ipAllows /\ Len(call) = 2
                            /\ WouldAllow(buckets, call[2].key, LoginIdentifierLimit, time))
            /\ \A k \in OpenBuckets(buckets, time) \ KeysOf(call) :
                 k \in DOMAIN buckets' /\ buckets'[k] = buckets[k]
            /\ DOMAIN buckets' \subseteq DOMAIN buckets \cup KeysOf(call)]_vars

(* One attempt was stopped by the address bucket alone and another by the   *)
(* identifier bucket alone.                                                 *)
LoginThrottleWitness ==
    \E c, e \in DOMAIN rateLog :
      /\ IsLogin(rateLog[c]) /\ Len(rateLog[c]) = 1 /\ Limited(rateLog[c][1])
      /\ IsLogin(rateLog[e]) /\ Len(rateLog[e]) = 2
      /\ Allowed(rateLog[e][1]) /\ Limited(rateLog[e][2])

(* C22 as stated: a call never changes the bucket of any other key.         *)
OtherBucketsUntouched ==
    [][\A c \in NewCalls :
         \A k \in DOMAIN buckets \ KeysOf(rateLog'[c]) :
            k \in DOMAIN buckets' /\ buckets'[k] = buckets[k]]_vars

(* The limiter with no eviction, replayed over the logged calls: the table  *)
(* after the first n of them and the answer to the n-th.                    *)
AllowsNoEviction(bk, e) == WouldAllow(bk, e.key, e.limit, e.at)

StepNoEviction(bk, e) ==
    IF e.limit <= 0 THEN bk
    ELSE IF e.key \notin DOMAIN bk \/ e.at >= bk[e.key].resetAt
         THEN SetBucket(bk, e.key, [count |-> 1, resetAt |-> e.at + WindowMs])
         ELSE IF bk[e.key].count >= e.limit THEN bk
              ELSE [bk EXCEPT ![e.key].count = @ + 1]

RECURSIVE TableNoEviction(_, _)
TableNoEviction(log, n) ==
    IF n = 0 THEN <<>> ELSE StepNoEviction(TableNoEviction(log, n - 1), log[n])

Evicted == DOMAIN TableNoEviction(Entries, Len(Entries)) \ DOMAIN buckets

(* C23: the sweep drops only buckets whose window has expired, so every     *)
(* call is answered as by the limiter that never evicts, and the table is   *)
(* that limiter's table less some expired buckets.                          *)
EvictionInvisible ==
    LET reference == TableNoEviction(Entries, Len(Entries))
    IN /\ \A i \in DOMAIN Entries :
            Allowed(Entries[i]) <=> AllowsNoEviction(TableNoEviction(Entries, i - 1), Entries[i])
       /\ DOMAIN buckets \subseteq DOMAIN reference
       /\ \A k \in DOMAIN buckets : buckets[k] = reference[k]
       /\ \A k \in Evicted : time >= reference[k].resetAt

(* A bucket was swept and, after its window had expired, a call on another  *)
(* key was still rejected.                                                  *)
EvictionWitness ==
    \E k \in Evicted, i \in DOMAIN Entries :
      /\ Limited(Entries[i])
      /\ Entries[i].key # k
      /\ Entries[i].at >= TableNoEviction(Entries, Len(Entries))[k].resetAt

(* ---------------------------- last used -------------------------------- *)
(* C24: once a presented credential has matched, the write of lastUsedAt,   *)
(* failing or not, leaves the request authenticated and on its way to the   *)
(* key-level limit check, with no reply sent.                               *)
LastUsedBestEffort ==
    [][\A r \in Reqs :
         (requests[r].pc = "lastUsed" /\ requests'[r] # requests[r])
           => /\ requests'[r].pc = "keyLimit"
              /\ requests'[r].reply = NoReply
              /\ requests'[r].apiKey = requests[r].apiKey]_vars

(* ----------------------- per-credential rollup ------------------------- *)
KeyRollupTotal(ud, k) ==
    SumOver({row \in DOMAIN ud : row[2] = keyMetric(k)}, ud)

(* The requests of credential k whose settlement ran to its end after a     *)
(* reply below 500.                                                         *)
SettledNonFault(k) ==
    {r \in Reqs : /\ requests[r].apiKey.id = k
                  /\ requests[r].pc = "done"
                  /\ requests[r].reply.status < 500
                  /\ ~requests[r].logged}

KeyRollupToday(ud, k, now) ==
    SumOver({row \in DOMAIN ud : row[2] = keyMetric(k) /\ row[3] = dayBucket(now)}, ud)

KeyRollupExact ==
    \A k \in KeyIds :
      /\ KeyRollupTotal(usageDaily, k)
           = KeyRollupTotal(SeedRollup, k) + DefaultQuantity * Cardinality(SettledNonFault(k))
      /\ KeyRollupToday(usageDaily, k, clock)
           = DefaultQuantity * Cardinality(SettledNonFault(k))

TenantRows(ud) == [row \in {x \in DOMAIN ud : x[2] = METRIC} |-> ud[row]]

(* C25: the per-credential rollup holds one quantity per request of the     *)
(* credential settled below 500 and nothing for a request answered 500 or   *)
(* above; and every reservation attempt is decided as on the table without  *)
(* the per-credential rows.                                                 *)
KeyRollupCounted ==
    [][/\ KeyRollupExact'
       /\ \A r \in Reqs :
            (ReserveChecked(r) /\ requests[r].apiKey.orgId \in Orgs)
              => LET o == requests[r].apiKey.orgId
                     cycleStart == getBillingCycleStart(subscription, o, clock)
                 IN (requests'[r].reply = ErrorReply(UsageLimitExceeded))
                      <=> (AggregateAnyMetric(TenantRows(usageDaily), o, cycleStart)
                             >= organization[o].planLimit)]_vars

(* One request of the credential was settled with 200 and counted, and     *)
(* another passed the quota check, was answered 500 and was not counted.    *)
KeyRollupWitness ==
    \E r, q, p \in Reqs :
      /\ r \in SettledNonFault("k1") /\ requests[r].reply.status = 200
      /\ requests[q].apiKey.id = "k1" /\ requests[q].pc = "done"
      /\ requests[q].reply.status = 500
      /\ KeyRollupTotal(usageDaily, "k1") = KeyRollupTotal(SeedRollup, "k1") + DefaultQuantity
      /\ p = q /\ requests[p].usageReserved

(* --------------------------- advisory lock ----------------------------- *)
LeftReserve(req) == req.usageReserved \/ req.reply # NoReply

(* C26: the advisory lock is held only by a request inside its reserve      *)
(* transaction, and every request that reaches reserve leaves it, admitted  *)
(* or rejected.                                                             *)
LockAlwaysReleased ==
    /\ [](\A o \in Orgs :
            advisoryLock[o] # NoReq => requests[advisoryLock[o]].pc = "txUpsert")
    /\ \A r \in Reqs :
         (requests[r].pc = "reserve") ~> LeftReserve(requests[r])

(* A request holds the lock after an earlier one of the same tenant         *)
(* committed its reservation and released it.                               *)
LockReleasedWitness ==
    \E r, q \in Reqs :
      /\ r # q
      /\ requests[q].usageReserved
      /\ requests[r].pc = "txUpsert"
      /\ advisoryLock[requests[r].apiKey.orgId] = r
      /\ requests[q].apiKey.orgId = requests[r].apiKey.orgId

(* ------------------------- digest comparison --------------------------- *)
CandidatesOf(req) ==
    Candidates(apiKey, prefixFromKey(req.authorization.token), req.orgHeader)

(* C27: a candidate whose stored hash has another length than the digest of *)
(* the presented token is no match and is never handed to the comparison,   *)
(* which would throw; a candidate of equal length matches exactly when the  *)
(* comparison finds the two digests equal.                                  *)
UnequalLengthsShortCircuit ==
    [][\A r \in Reqs :
         (AuthStep(r) /\ Bearer(requests'[r]) /\ requests'[r].orgHeader # NoHeader)
           => LET req == requests'[r]
                  digest == sha256(req.authorization.token)
              IN /\ req.reply.status # 500
                 /\ Authenticated(req) =>
                      /\ req.apiKey.id \in CandidatesOf(req)
                      /\ apiKey[req.apiKey.id].hash.len = digest.len
                      /\ timingSafeEqual(apiKey[req.apiKey.id].hash, digest).equal
                 /\ ~Authenticated(req) =>
                      \A c \in CandidatesOf(req) :
                         \/ apiKey[c].hash.len # digest.len
                         \/ ~timingSafeEqual(apiKey[c].hash, digest).equal]_vars

(* A token whose only candidate stores a digest of another length was       *)
(* answered 401.                                                            *)
UnequalLengthsWitness ==
    \E r \in Reqs :
      /\ requests[r].reply.status = 401
      /\ Bearer(requests[r])
      /\ requests[r].orgHeader # NoHeader
      /\ CandidatesOf(requests[r]) # {}
      /\ \E c \in CandidatesOf(requests[r]) :
           /\ apiKey[c].hash.len # sha256(requests[r].authorization.token).len
           /\ apiKey[c].hash.of = requests[r].authorization.token

(* ------------------------- rollup sign --------------------------------- *)
(* C28: in every reachable state every rollup row, tenant-wide or of a      *)
(* credential, has a quantity of at least zero.                             *)
RollupNonNegative ==
    \A row \in DOMAIN usageDaily : usageDaily[row] >= 0

(* ------------------------- reservation flag ---------------------------- *)
Committed(r) ==
    /\ requests[r].pc = "txUpsert"
    /\ requests'[r].pc # "txUpsert"
    /\ usageDaily' # usageDaily

Decremented == \E row \in DOMAIN usageDaily : usageDaily'[row] < usageDaily[row]

(* C29: a request's usageReserved flag becomes set in exactly the step in   *)
(* which its reserve transaction commits its +1 and is never set otherwise; *)
(* a rollup is decremented only by the settlement of a flagged request that *)
(* was answered 5xx, and that step finishes the request, which then never   *)
(* moves again.                                                             *)
ReserveFlagExact ==
    [][\A r \in Reqs :
         LET before == requests[r]
             after == requests'[r]
         IN /\ (after.usageReserved # before.usageReserved) <=> Committed(r)
            /\ Committed(r) => (after.usageReserved /\ ~before.usageReserved)
            /\ before.pc = "compensate" => before.usageReserved
            /\ (Decremented /\ after # before) =>
                 /\ before.usageReserved
                 /\ before.pc = "compensate"
                 /\ before.reply.status >= 500
                 /\ after.pc = "done"
            /\ before.pc = "done" => after = before]_vars

(* A flagged request whose handler failed has finished its compensation     *)
(* without a further store error, and another request was rejected by       *)
(* reserve and finished without the flag.                                   *)
ReserveFlagWitness ==
    \E r, q \in Reqs :
      /\ requests[r].usageReserved
      /\ requests[r].reply.status = 500
      /\ requests[r].pc = "done"
      /\ faults = 1
      /\ ~requests[q].usageReserved
      /\ requests[q].pc = "done"
      /\ requests[q].reply.status = 429

(* ------------------------- usage-rollups job --------------------------- *)
(* The whole job run at once on a ledger.                                   *)
RECURSIVE ApplyRows(_, _, _)
ApplyRows(ud, rows, bucket) ==
    IF rows = {} THEN ud
    ELSE LET row == CHOOSE x \in rows : TRUE
         IN ApplyRows(SetQuantity(ud, row.orgId, row.metric, bucket, row.quantity),
                      rows \ {row}, bucket)

RolledUp(ud, events, bucket) == ApplyRows(ud, GroupRows(events, bucket), bucket)

Settling == {r \in Reqs : requests[r].pc \notin {"idle", "done"}}

JobCompletes ==
    /\ usageJob.pc = "upsert"
    /\ usageJob'.pc = "idle"
    /\ usageDaily' # usageDaily

(* C30: the job is idempotent and consistent with the ledger: run twice on  *)
(* the same tables it leaves what one run leaves; when it completes, the    *)
(* row of every (tenant, metric) with events on the day holds the sum of    *)
(* those events; and with no request between arrival and the end of its     *)
(* settlement, an upsert of the job leaves every existing tenant-wide row   *)
(* at its value.                                                            *)
RollupJobConsistent ==
    /\ [](\A d \in Days :
            RolledUp(RolledUp(usageDaily, usageEvent, d), usageEvent, d)
              = RolledUp(usageDaily, usageEvent, d))
    /\ [][/\ (JobCompletes /\ Settling = {}) =>
               \A row \in GroupRows(usageEvent', usageJob.bucket) :
                  Quantity(usageDaily', row.orgId, row.metric, usageJob.bucket)
                    = row.quantity
           /\ (usageJob.pc = "upsert" /\ Settling = {}) =>
               \A k \in DOMAIN usageDaily :
                  k[2] = METRIC => usageDaily'[k] = usageDaily[k]]_vars
====
